---- MODULE Spec2Model ----
(***************************************************************************)
(* Model of src/src/lambda_function.py: the game formatter                 *)
(* (format_game_data) and the update publisher (lambda_handler).           *)
(*                                                                         *)
(* Python values are tagged records, so that a decoded JSON document can   *)
(* be any JSON value and not only the array of game objects the handler    *)
(* expects.  Text is kept as real strings, built with \o exactly as the    *)
(* f-strings and str.join of the source build it.                          *)
(***************************************************************************)
EXTENDS Integers, Sequences, FiniteSets, TLC

VARIABLES
    pc,             \* position of lambda_handler
    env,            \* process environment read by os.getenv
    data,           \* value decoded from the upstream response body
    fetched,        \* outcome of the fetch step (try block, lines 81-85)
    messages,       \* list built by the comprehension of line 105
    final_message,  \* line 106
    httpCalls,      \* URLs passed to urllib.request.urlopen, in order
    publishCalls,   \* keyword arguments of each sns_client.publish call
    published,      \* outcome of the publish call
    result,         \* value returned by lambda_handler
    raised,         \* exception that left lambda_handler
    game,           \* argument of a direct call of format_game_data
    formatted       \* outcome of that call

vars == <<pc, env, data, fetched, messages, final_message, httpCalls,
          publishCalls, published, result, raised, game, formatted>>

handlerVars == <<pc, env, data, fetched, messages, final_message, httpCalls,
                 publishCalls, published, result, raised>>

formatterVars == <<game, formatted>>

(***************************************************************************)
(* Bounds of the model.                                                    *)
(***************************************************************************)
MaxGames == 2       \* longest decoded game list
MaxQuarters == 2    \* longest quarter sequence of a game record

(***************************************************************************)
(* Python / JSON values.                                                   *)
(***************************************************************************)
None == [t |-> "null"]
JBool(b) == [t |-> "bool", b |-> b]
JInt(i) == [t |-> "int", i |-> i]
JStr(s) == [t |-> "str", s |-> s]
JArr(a) == [t |-> "arr", a |-> a]
JObj(o) == [t |-> "obj", o |-> o]

\* a name that is not bound yet
Undefined == [t |-> "undefined"]

\* an exception object: its class and str(e)
Exc(cls, desc) == [cls |-> cls, code |-> 0, reason |-> "", desc |-> desc]

Return(v) == [ok |-> TRUE, value |-> v]
Raise(e) == [ok |-> FALSE, exc |-> e]

\* truth value testing, as used by `not x`
Falsy(v) ==
    CASE v.t = "null" -> TRUE
      [] v.t = "bool" -> ~v.b
      [] v.t = "int"  -> v.i = 0
      [] v.t = "str"  -> v.s = ""
      [] v.t = "arr"  -> v.a = <<>>
      [] v.t = "obj"  -> DOMAIN v.o = {}

\* str(v), as applied by an f-string replacement field to a scalar
Str(v) ==
    CASE v.t = "null" -> "None"
      [] v.t = "bool" -> IF v.b THEN "True" ELSE "False"
      [] v.t = "int"  -> ToString(v.i)
      [] v.t = "str"  -> v.s

\* dict.get(key, default); AttributeError on a value that is not a dict
HasGet(v) == v.t = "obj"
Get(v, key, default) == IF key \in DOMAIN v.o THEN v.o[key] ELSE default

RECURSIVE SetToSeq(_)
SetToSeq(S) ==
    IF S = {} THEN <<>>
    ELSE LET x == CHOOSE y \in S : TRUE IN <<x>> \o SetToSeq(S \ {x})

\* iter(v): the items a for clause visits, or TypeError
Iter(v) ==
    CASE v.t = "arr" -> Return(v.a)
      [] v.t = "str" -> Return([i \in 1..Len(v.s) |-> JStr(SubSeq(v.s, i, i))])
      [] v.t = "obj" -> Return([i \in 1..Cardinality(DOMAIN v.o) |->
                                   JStr(SetToSeq(DOMAIN v.o)[i])])
      [] OTHER -> Raise(Exc("TypeError", "object is not iterable"))

\* str.join that emits the parts last to first
RECURSIVE JoinStrReversed(_, _)
JoinStrReversed(sep, parts) ==
    IF parts = <<>> THEN ""
    ELSE IF Len(parts) = 1 THEN parts[1]
    ELSE JoinStrReversed(sep, Tail(parts)) \o sep \o parts[1]

\* sep.join(parts)
RECURSIVE JoinStr(_, _)
JoinStr(sep, parts) ==
    IF parts = <<>> THEN ""
    ELSE IF Len(parts) = 1 THEN parts[1]
    ELSE parts[1] \o sep \o JoinStr(sep, Tail(parts))

\* a list comprehension [f(x) for x in xs], given each f(x) as an outcome:
\* the first element that raises ends the comprehension
Comprehension(outcomes) ==
    IF \E i \in 1..Len(outcomes) : ~outcomes[i].ok
    THEN LET first == CHOOSE i \in 1..Len(outcomes) :
                          /\ ~outcomes[i].ok
                          /\ \A j \in 1..(i - 1) : outcomes[j].ok
         IN  Raise(outcomes[first].exc)
    ELSE Return([i \in 1..Len(outcomes) |-> outcomes[i].value])

(***************************************************************************)
(* format_game_data                                                        *)
(***************************************************************************)
\* the f-string of line 19, for one element q of the quarter sequence
QuarterEntry(q) ==
    IF q.t # "obj"
    THEN Raise(Exc("TypeError", "indices must be integers or object is not subscriptable"))
    ELSE IF "Number" \notin DOMAIN q.o
    THEN Raise(Exc("KeyError", "'Number'"))
    ELSE Return("Q" \o Str(q.o["Number"]) \o ": "
                \o Str(Get(q, "AwayScore", JStr("N/A"))) \o "-"
                \o Str(Get(q, "HomeScore", JStr("N/A"))))

\* lines 17-21
QuarterScores(g) ==
    LET quarters == Iter(Get(g, "Quarters", JArr(<<>>)))
    IN  IF ~quarters.ok THEN quarters
        ELSE LET entries == Comprehension(
                     [i \in 1..Len(quarters.value) |->
                         QuarterEntry(quarters.value[i])])
             IN  IF ~entries.ok THEN entries
                 ELSE Return(JoinStr(", ", entries.value))

\* line 12
FinalScore(g) ==
    Str(Get(g, "AwayTeamScore", JStr("N/A"))) \o "-"
        \o Str(Get(g, "HomeTeamScore", JStr("N/A")))

\* lines 26-27, 36-37, 44-45, 51-52
Header(g) ==
    "Game Status: " \o Str(Get(g, "Status", JStr("Unknown"))) \o "\n"
        \o Str(Get(g, "AwayTeam", JStr("Unknown"))) \o " vs "
        \o Str(Get(g, "HomeTeam", JStr("Unknown"))) \o "\n"

\* lines 25-32
FormatFinal(g, quarter_scores) ==
    Header(g)
        \o "Final Score: " \o FinalScore(g) \o "\n"
        \o "Start Time: " \o Str(Get(g, "DateTime", JStr("Unknown"))) \o "\n"
        \o "Channel: " \o Str(Get(g, "Channel", JStr("Unknown"))) \o "\n"
        \o "Quarter Scores: " \o quarter_scores \o "\n"

\* lines 34-41
FormatInProgress(g) ==
    Header(g)
        \o "Current Score: " \o FinalScore(g) \o "\n"
        \o "Last Play: " \o Str(Get(g, "LastPlay", JStr("N/A"))) \o "\n"
        \o "Channel: " \o Str(Get(g, "Channel", JStr("Unknown"))) \o "\n"

\* a Scheduled branch that keeps the score line of the InProgress branch
FormatScheduledWithScore(g) ==
    Header(g)
        \o "Current Score: " \o FinalScore(g) \o "\n"
        \o "Start Time: " \o Str(Get(g, "DateTime", JStr("Unknown"))) \o "\n"
        \o "Channel: " \o Str(Get(g, "Channel", JStr("Unknown"))) \o "\n"

\* lines 43-48
FormatScheduled(g) ==
    Header(g)
        \o "Start Time: " \o Str(Get(g, "DateTime", JStr("Unknown"))) \o "\n"
        \o "Channel: " \o Str(Get(g, "Channel", JStr("Unknown"))) \o "\n"

\* lines 50-54
FormatOther(g) ==
    Header(g) \o "Details are unavailable at the moment.\n"

\* lines 8-54
format_game_data(g) ==
    IF ~HasGet(g)
    THEN Raise(Exc("AttributeError", "object has no attribute 'get'"))
    ELSE LET status == Get(g, "Status", JStr("Unknown"))
             quarter_scores == QuarterScores(g)
         IN  IF ~quarter_scores.ok THEN quarter_scores
             ELSE IF status = JStr("Final")
                  THEN Return(FormatFinal(g, quarter_scores.value))
             ELSE IF status = JStr("InProgress")
                  THEN Return(FormatInProgress(g))
             ELSE IF status = JStr("Scheduled")
                  THEN Return(FormatScheduled(g))
             ELSE Return(FormatOther(g))

(***************************************************************************)
(* Direct calls of format_game_data on bounded game records.               *)
(***************************************************************************)
GameKeys == {"Status", "AwayTeam", "HomeTeam", "AwayTeamScore",
             "HomeTeamScore", "DateTime", "Channel", "LastPlay", "Quarters"}

StatusValues == {JStr("Final"), JStr("InProgress"), JStr("Scheduled"),
                 JStr("Postponed"), None}

\* the value a scalar field has when it is present
PresentValue(key) ==
    CASE key = "AwayTeam"      -> JStr("Lakers")
      [] key = "HomeTeam"      -> JStr("Celtics")
      [] key = "AwayTeamScore" -> JInt(101)
      [] key = "HomeTeamScore" -> JInt(0)
      [] key = "DateTime"      -> JStr("2024-01-01T19:00")
      [] key = "Channel"       -> None
      [] key = "LastPlay"      -> JStr("Dunk")

QuarterRecords ==
    { JObj([Number |-> JInt(1), AwayScore |-> JInt(25), HomeScore |-> JInt(20)]),
      JObj([Number |-> JInt(2), AwayScore |-> JInt(30)]),
      JObj([AwayScore |-> JInt(7), HomeScore |-> JInt(9)]),
      JInt(4) }

SeqsUpTo(S, n) == UNION { [1..k -> S] : k \in 0..n }

QuartersValues ==
    { JArr(qs) : qs \in SeqsUpTo(QuarterRecords, MaxQuarters) }
        \cup { None, JInt(5), JStr(""), JStr("ab"), JObj(<<>>) }

GameRecord(keys, status, quarters) ==
    JObj([k \in keys |->
            IF k = "Status" THEN status
            ELSE IF k = "Quarters" THEN quarters
            ELSE PresentValue(k)])

GameRecords ==
    { GameRecord(keys, status, quarters) :
        keys \in SUBSET GameKeys, status \in StatusValues,
        quarters \in QuartersValues }

FormatterInputs == GameRecords \cup { None, JInt(3), JStr("Final"), JArr(<<>>) }

HandlerIdle ==
    /\ pc = "idle"
    /\ env = [NBA_API_KEY |-> None, SNS_TOPIC_ARN |-> None]
    /\ data = Undefined
    /\ fetched = Undefined
    /\ messages = <<>>
    /\ final_message = ""
    /\ httpCalls = <<>>
    /\ publishCalls = <<>>
    /\ published = Undefined
    /\ result = Undefined
    /\ raised = Undefined

FormatterInit ==
    /\ HandlerIdle
    /\ game \in FormatterInputs
    /\ formatted = Undefined

CallFormatter ==
    /\ formatted = Undefined
    /\ formatted' = format_game_data(game)
    /\ UNCHANGED <<game, handlerVars>>

FormatterNext == CallFormatter

FormatterSpec == FormatterInit /\ [][FormatterNext]_vars

(***************************************************************************)
(* Properties of format_game_data, checked under FormatterSpec.            *)
(***************************************************************************)
Contains(s, sub) ==
    \E i \in 1..(Len(s) - Len(sub) + 1) : SubSeq(s, i, i + Len(sub) - 1) = sub

StartsWith(s, prefix) ==
    Len(prefix) <= Len(s) /\ SubSeq(s, 1, Len(prefix)) = prefix

LineCount(s) == Cardinality({ i \in 1..Len(s) : SubSeq(s, i, i) = "\n" })

Called == formatted # Undefined

HasStatus(g, status) ==
    g.t = "obj" /\ "Status" \in DOMAIN g.o /\ g.o["Status"] = JStr(status)

\* the elements of the quarter sequence of a record whose formatting returned
QuarterSequence(g) ==
    IF "Quarters" \in DOMAIN g.o THEN Iter(g.o["Quarters"]).value ELSE <<>>

\* a game record that deviates from the upstream schema only by missing keys
OnlyMissingFields(g) ==
    /\ g.t = "obj"
    /\ "Quarters" \in DOMAIN g.o =>
          /\ g.o["Quarters"].t = "arr"
          /\ \A i \in 1..Len(g.o["Quarters"].a) : g.o["Quarters"].a[i].t = "obj"

FieldOr(o, key, placeholder) ==
    IF key \in DOMAIN o THEN Str(o[key]) ELSE placeholder

\* C6: format_game_data returns a text block, and raises nothing, for every
\* game record in which any subset of the fields, including the fields of
\* its quarter records, is missing.
C6_NeverFails ==
    (Called /\ OnlyMissingFields(game)) => formatted.ok

ExpectedQuarterEntry(q) ==
    "Q" \o Str(q.o["Number"]) \o ": " \o FieldOr(q.o, "AwayScore", "N/A")
        \o "-" \o FieldOr(q.o, "HomeScore", "N/A")

RECURSIVE ExpectedQuarterList(_)
ExpectedQuarterList(qs) ==
    IF Len(qs) = 0 THEN ""
    ELSE IF Len(qs) = 1 THEN ExpectedQuarterEntry(qs[1])
    ELSE ExpectedQuarterList(SubSeq(qs, 1, Len(qs) - 1)) \o ", "
            \o ExpectedQuarterEntry(qs[Len(qs)])

\* C7: the block of a game with status "Final" holds the score string
\* "<away score>-<home score>" on its final-score line, and its quarter line
\* lists exactly one "Q<n>: <away>-<home>" entry per element of the quarter
\* sequence, in input order, joined by ", ".
C7_FinalScoreAndQuarters ==
    (Called /\ formatted.ok /\ HasStatus(game, "Final")) =>
        /\ Contains(formatted.value,
              "\nFinal Score: " \o FieldOr(game.o, "AwayTeamScore", "N/A")
                  \o "-" \o FieldOr(game.o, "HomeTeamScore", "N/A") \o "\n")
        /\ Contains(formatted.value,
              "\nQuarter Scores: "
                  \o ExpectedQuarterList(QuarterSequence(game)) \o "\n")
        /\ LineCount(formatted.value) = 6

C7_Witness ==
    /\ Called /\ formatted.ok /\ HasStatus(game, "Final")
    /\ {"AwayTeamScore", "HomeTeamScore"} \subseteq DOMAIN game.o
    /\ Len(QuarterSequence(game)) >= 2
    /\ QuarterSequence(game)[1] # QuarterSequence(game)[2]
    /\ Contains(formatted.value, "Final Score: 101-0\n")
    /\ Contains(formatted.value, "Q2: 30-N/A, Q1: 25-20\n")

\* C8: the block of a game with status "Scheduled" consists of the status,
\* matchup, start time and channel lines only: it holds no "Final Score",
\* "Current Score" or quarter-score text, whatever score and quarter fields
\* the record carries.
C8_ScheduledOmitsScores ==
    (Called /\ formatted.ok /\ HasStatus(game, "Scheduled")) =>
        /\ ~Contains(formatted.value, "Final Score")
        /\ ~Contains(formatted.value, "Current Score")
        /\ ~Contains(formatted.value, "Quarter Scores")
        /\ ~Contains(formatted.value, "Score")
        /\ \A i \in 1..Len(QuarterSequence(game)) :
              ~Contains(formatted.value,
                        ExpectedQuarterEntry(QuarterSequence(game)[i]))
        /\ ~Contains(formatted.value,
                     FieldOr(game.o, "AwayTeamScore", "N/A") \o "-")
        /\ StartsWith(formatted.value, "Game Status: Scheduled\n")
        /\ Contains(formatted.value, " vs ")
        /\ Contains(formatted.value, "\nStart Time: ")
        /\ Contains(formatted.value, "\nChannel: ")
        /\ LineCount(formatted.value) = 4

C8_Witness ==
    /\ Called /\ formatted.ok /\ HasStatus(game, "Scheduled")
    /\ {"AwayTeamScore", "HomeTeamScore"} \subseteq DOMAIN game.o
    /\ Len(QuarterSequence(game)) >= 1
    /\ formatted.value =
          "Game Status: Scheduled\nLakers vs Celtics\nStart Time: 2024-01-01T19:00\nChannel: None\n"

(***************************************************************************)
(* lambda_handler                                                          *)
(***************************************************************************)
\* os.getenv gives None for a variable that is not set
EnvValues == { None, JStr(""), JStr("k3y") }
TopicValues == { None, JStr(""), JStr("arn:aws:sns:us-east-1:1:gd") }
Environments == [NBA_API_KEY : EnvValues, SNS_TOPIC_ARN : TopicValues]

getenv(name) == env[name]

\* a validation that forgets the topic identifier
MissingConfigKeyOnly(api_key, sns_topic_arn) == Falsy(api_key)

\* line 63
MissingConfig(api_key, sns_topic_arn) == Falsy(api_key) \/ Falsy(sns_topic_arn)

\* exception classes named by the except clauses, with their base classes
BaseClass ==
    [ HTTPError |-> "URLError", URLError |-> "OSError",
      ConnectionResetError |-> "OSError", OSError |-> "Exception",
      JSONDecodeError |-> "ValueError", UnicodeDecodeError |-> "ValueError",
      ValueError |-> "Exception", ClientError |-> "Exception",
      EndpointConnectionError |-> "Exception", NoRegionError |-> "Exception",
      KeyError |-> "Exception", TypeError |-> "Exception",
      AttributeError |-> "Exception", Exception |-> "BaseException" ]

RECURSIVE IsInstance(_, _)
IsInstance(cls, target) ==
    \/ cls = target
    \/ cls \in DOMAIN BaseClass /\ IsInstance(BaseClass[cls], target)

\* the except clause that handles an exception: the first, in source order,
\* that names one of its classes; 0 when no clause does
Handler(clauses, e) ==
    IF \E i \in 1..Len(clauses) : IsInstance(e.cls, clauses[i])
    THEN CHOOSE i \in 1..Len(clauses) :
            /\ IsInstance(e.cls, clauses[i])
            /\ \A j \in 1..(i - 1) : ~IsInstance(e.cls, clauses[j])
    ELSE 0

\* lines 71-73: the calendar date six hours before utc_now, as %Y-%m-%d
UtcOffsetHours == 6
UtcNows == { [day |-> 2, hour |-> 5], [day |-> 2, hour |-> 6],
             [day |-> 11, hour |-> 23] }
CentralDay(utc_now) ==
    IF utc_now.hour >= UtcOffsetHours THEN utc_now.day ELSE utc_now.day - 1
TodayDate(utc_now) ==
    "2024-01-" \o (IF CentralDay(utc_now) < 10 THEN "0" ELSE "")
        \o ToString(CentralDay(utc_now))

\* line 78
ApiUrl(today_date, api_key) ==
    "https://api.sportsdata.io/v3/nba/scores/json/GamesByDate/"
        \o today_date \o "?key=" \o Str(api_key)

\* game records the upstream may send in a list
SampleGames ==
    { GameRecord(GameKeys, JStr("Final"),
          JArr(<<JObj([Number |-> JInt(1), AwayScore |-> JInt(25),
                       HomeScore |-> JInt(20)])>>)),
      GameRecord({"Status", "AwayTeam", "Channel", "AwayTeamScore"},
          JStr("InProgress"), None),
      GameRecord(GameKeys \ {"Quarters", "DateTime"}, JStr("Scheduled"), None),
      GameRecord({"Status", "HomeTeam", "Quarters"}, JStr("Final"),
          JArr(<<JObj([AwayScore |-> JInt(7), HomeScore |-> JInt(9)])>>)),
      JInt(3) }

\* what json.loads may return for a body that is valid JSON
DecodedValues ==
    { JArr(gs) : gs \in SeqsUpTo(SampleGames, MaxGames) }
        \cup { None, JBool(FALSE), JBool(TRUE), JInt(0), JInt(7), JStr(""),
               JStr("down"), JObj(<<>>),
               JObj([message |-> JStr("quota exceeded")]) }

\* what the upstream may do with the GET
UpstreamBehaviours ==
    { [kind |-> "unreachable", reason |-> "Name or service not known"],
      [kind |-> "status", code |-> 404, reason |-> "Not Found"],
      [kind |-> "status", code |-> 500, reason |-> "Internal Server Error"],
      [kind |-> "reset"], [kind |-> "undecodable"], [kind |-> "malformed"] }
        \cup { [kind |-> "json", value |-> v] : v \in DecodedValues }

\* lines 82-83: urlopen, read, decode, json.loads
FetchOutcome(up) ==
    CASE up.kind = "unreachable" ->
            Raise([cls |-> "URLError", code |-> 0, reason |-> up.reason,
                   desc |-> "<urlopen error " \o up.reason \o ">"])
      [] up.kind = "status" ->
            Raise([cls |-> "HTTPError", code |-> up.code, reason |-> up.reason,
                   desc |-> "HTTP Error " \o ToString(up.code) \o ": "
                                \o up.reason])
      [] up.kind = "reset" ->
            Raise(Exc("ConnectionResetError",
                      "[Errno 104] Connection reset by peer"))
      [] up.kind = "undecodable" ->
            Raise(Exc("UnicodeDecodeError",
                      "'utf-8' codec can't decode byte 0xff in position 0: invalid start byte"))
      [] up.kind = "malformed" ->
            Raise(Exc("JSONDecodeError",
                      "Expecting value: line 1 column 1 (char 0)"))
      [] up.kind = "json" -> Return(up.value)

\* the except clauses with the base class URLError ahead of HTTPError
FetchClausesBaseFirst ==
    <<"URLError", "HTTPError", "JSONDecodeError", "Exception">>

\* lines 86-97: the except clauses of the fetch step, in source order
FetchClauses == <<"HTTPError", "URLError", "JSONDecodeError", "Exception">>

FetchErrorResult(e) ==
    LET clause == FetchClauses[Handler(FetchClauses, e)]
    IN  CASE clause = "HTTPError" ->
                [statusCode |-> e.code, body |-> "HTTP Error: " \o e.reason]
          [] clause = "URLError" ->
                [statusCode |-> 500, body |-> "URL Error: " \o e.reason]
          [] clause = "JSONDecodeError" ->
                [statusCode |-> 500, body |-> "Error decoding JSON response"]
          [] clause = "Exception" ->
                [statusCode |-> 500, body |-> "Unexpected error: " \o e.desc]

\* a join that also ends the last block with the separator
FinalMessageTrailingSeparator(msgs) ==
    JoinStr("", [i \in 1..Len(msgs) |-> msgs[i] \o "\n---\n"])

\* line 106
FinalMessage(msgs) == JoinStr("\n---\n", msgs)

\* lines 110-114
PublishRequest(sns_topic_arn, message) ==
    [TopicArn |-> Str(sns_topic_arn), Message |-> message,
     Subject |-> "NBA Game Updates"]

\* what sns_client.publish may do
PublishOutcomes ==
    { Return("MessageId"),
      Raise(Exc("ClientError",
                "An error occurred (AuthorizationError) when calling the Publish operation: denied")),
      Raise(Exc("EndpointConnectionError",
                "Could not connect to the endpoint URL")) }

\* lines 116-121: the except clauses of the publish step, in source order
PublishClauses == <<"ClientError", "Exception">>

\* a publish step whose ClientError clause logs and falls through to line 123
PublishResultFallsThrough(outcome) ==
    IF outcome.ok \/ outcome.exc.cls = "ClientError"
    THEN [statusCode |-> 200, body |-> "Data processed and sent to SNS"]
    ELSE [statusCode |-> 500,
          body |-> "Unexpected error: " \o outcome.exc.desc]

\* lines 115-123
PublishResult(outcome) ==
    IF outcome.ok
    THEN [statusCode |-> 200, body |-> "Data processed and sent to SNS"]
    ELSE LET clause == PublishClauses[Handler(PublishClauses, outcome.exc)]
         IN  CASE clause = "ClientError" ->
                    [statusCode |-> 500, body |-> "Error publishing to SNS"]
               [] clause = "Exception" ->
                    [statusCode |-> 500,
                     body |-> "Unexpected error: " \o outcome.exc.desc]

\* what boto3.client("sns") may do
ClientOutcomes ==
    { Return("sns"),
      Raise(Exc("NoRegionError", "You must specify a region.")) }

Init ==
    /\ pc = "start"
    /\ env \in Environments
    /\ data = Undefined
    /\ fetched = Undefined
    /\ messages = <<>>
    /\ final_message = ""
    /\ httpCalls = <<>>
    /\ publishCalls = <<>>
    /\ published = Undefined
    /\ result = Undefined
    /\ raised = Undefined
    /\ game = Undefined
    /\ formatted = Undefined

\* lines 58-65
ValidateEnv ==
    /\ pc = "start"
    /\ IF MissingConfig(getenv("NBA_API_KEY"), getenv("SNS_TOPIC_ARN"))
       THEN /\ result' = [statusCode |-> 500,
                          body |-> "Missing environment variables"]
            /\ pc' = "done"
       ELSE /\ pc' = "client"
            /\ UNCHANGED result
    /\ UNCHANGED <<env, data, fetched, messages, final_message, httpCalls,
                   publishCalls, published, raised, formatterVars>>

\* line 68
CreateClient ==
    /\ pc = "client"
    /\ \E outcome \in ClientOutcomes :
          IF outcome.ok
          THEN pc' = "fetch" /\ UNCHANGED raised
          ELSE pc' = "done" /\ raised' = outcome.exc
    /\ UNCHANGED <<env, data, fetched, messages, final_message, httpCalls,
                   publishCalls, published, result, formatterVars>>

\* lines 70-97
Fetch ==
    /\ pc = "fetch"
    /\ \E utc_now \in UtcNows, up \in UpstreamBehaviours :
          LET api_url == ApiUrl(TodayDate(utc_now), getenv("NBA_API_KEY"))
              outcome == FetchOutcome(up)
          IN  /\ httpCalls' = Append(httpCalls, api_url)
              /\ fetched' = outcome
              /\ IF outcome.ok
                 THEN /\ data' = outcome.value
                      /\ pc' = "check"
                      /\ UNCHANGED result
                 ELSE /\ result' = FetchErrorResult(outcome.exc)
                      /\ pc' = "done"
                      /\ UNCHANGED data
    /\ UNCHANGED <<env, messages, final_message, publishCalls, published,
                   raised, formatterVars>>

\* an emptiness check that logs and does not return
CheckGamesNoReturn ==
    /\ pc = "check"
    /\ pc' = "format"
    /\ UNCHANGED <<env, data, fetched, messages, final_message, httpCalls,
                   publishCalls, published, result, raised, formatterVars>>

\* lines 99-102
CheckGames ==
    /\ pc = "check"
    /\ IF Falsy(data)
       THEN /\ result' = [statusCode |-> 200,
                          body |-> "No games available for today."]
            /\ pc' = "done"
       ELSE /\ pc' = "format"
            /\ UNCHANGED result
    /\ UNCHANGED <<env, data, fetched, messages, final_message, httpCalls,
                   publishCalls, published, raised, formatterVars>>

\* line 105
FormatAll(d) ==
    LET games == Iter(d)
    IN  IF ~games.ok THEN games
        ELSE Comprehension([i \in 1..Len(games.value) |->
                               format_game_data(games.value[i])])

\* lines 104-106
FormatGames ==
    /\ pc = "format"
    /\ LET outcome == FormatAll(data)
       IN  IF outcome.ok
           THEN /\ messages' = outcome.value
                /\ final_message' = FinalMessage(outcome.value)
                /\ pc' = "publish"
                /\ UNCHANGED raised
           ELSE /\ raised' = outcome.exc
                /\ pc' = "done"
                /\ UNCHANGED <<messages, final_message>>
    /\ UNCHANGED <<env, data, fetched, httpCalls, publishCalls, published,
                   result, formatterVars>>

\* a publish step that sends the message again after a failed attempt
PublishWithRetry ==
    /\ pc = "publish"
    /\ \E outcome \in PublishOutcomes :
          LET request == PublishRequest(getenv("SNS_TOPIC_ARN"), final_message)
          IN  /\ publishCalls' = IF outcome.ok
                                 THEN Append(publishCalls, request)
                                 ELSE publishCalls \o <<request, request>>
              /\ published' = outcome
              /\ result' = PublishResult(outcome)
              /\ pc' = "done"
    /\ UNCHANGED <<env, data, fetched, messages, final_message, httpCalls,
                   raised, formatterVars>>

\* lines 108-123
Publish ==
    /\ pc = "publish"
    /\ \E outcome \in PublishOutcomes :
          /\ publishCalls' = Append(publishCalls,
                 PublishRequest(getenv("SNS_TOPIC_ARN"), final_message))
          /\ published' = outcome
          /\ result' = PublishResult(outcome)
          /\ pc' = "done"
    /\ UNCHANGED <<env, data, fetched, messages, final_message, httpCalls,
                   raised, formatterVars>>

Next ==
    \/ ValidateEnv
    \/ CreateClient
    \/ Fetch
    \/ CheckGames
    \/ FormatGames
    \/ Publish

Spec == Init /\ [][Next]_vars

(***************************************************************************)
(* Properties of lambda_handler, checked under Spec.                       *)
(***************************************************************************)
Absent(v) == v = None \/ v = JStr("")

FetchSucceeded == fetched # Undefined /\ fetched.ok
FetchFailed == fetched # Undefined /\ ~fetched.ok
PublishAttempted == published # Undefined
Returned == result # Undefined

\* C1: every invocation ends by returning a result {statusCode, body}; no
\* exception leaves lambda_handler.
C1_AlwaysReturns ==
    pc = "done" =>
        /\ raised = Undefined
        /\ Returned
        /\ DOMAIN result = {"statusCode", "body"}

\* C2: when NBA_API_KEY or SNS_TOPIC_ARN is unset or empty, the handler
\* returns statusCode 500 with body "Missing environment variables" and makes
\* no HTTP call and no publish call.
C2_MissingConfigShortCircuits ==
    (Absent(env["NBA_API_KEY"]) \/ Absent(env["SNS_TOPIC_ARN"])) =>
        /\ pc \in {"start", "done"}
        /\ httpCalls = <<>>
        /\ publishCalls = <<>>
        /\ raised = Undefined
        /\ pc = "done" =>
              result = [statusCode |-> 500,
                        body |-> "Missing environment variables"]

C2_Witness ==
    /\ pc = "done"
    /\ ~Absent(env["NBA_API_KEY"])
    /\ env["SNS_TOPIC_ARN"] = JStr("")
    /\ Returned /\ result.statusCode = 500

\* C3: when the fetch succeeds and the decoded game list is empty, the
\* handler returns statusCode 200 with body "No games available for today."
\* and makes no publish call.
C3_EmptyListIsSuccess ==
    (FetchSucceeded /\ data = JArr(<<>>)) =>
        /\ pc \in {"check", "done"}
        /\ publishCalls = <<>>
        /\ raised = Undefined
        /\ pc = "done" =>
              result = [statusCode |-> 200,
                        body |-> "No games available for today."]

C3_Witness ==
    /\ pc = "done" /\ FetchSucceeded /\ data = JArr(<<>>)
    /\ Returned /\ result.statusCode = 200

\* the four outcomes of a failed fetch
HttpOutcome(e, r) ==
    r.statusCode = e.code /\ StartsWith(r.body, "HTTP Error")
TransportOutcome(e, r) ==
    r.statusCode = 500 /\ r.body = "URL Error: " \o e.reason
DecodeOutcome(e, r) ==
    r.statusCode = 500 /\ r.body = "Error decoding JSON response"
UnexpectedOutcome(e, r) ==
    r.statusCode = 500 /\ r.body = "Unexpected error: " \o e.desc

\* C4: a failed fetch ends the invocation at once with exactly one of four
\* results: the upstream status code and a body starting "HTTP Error" for an
\* HTTP-level error, 500 "URL Error: <reason>" for a transport error, 500
\* "Error decoding JSON response" for malformed JSON, and 500
\* "Unexpected error: <description>" for any other exception.
C4_FetchFailuresPartition ==
    FetchFailed =>
        LET e == fetched.exc
        IN  /\ pc = "done"
            /\ Returned
            /\ raised = Undefined
            /\ data = Undefined
            /\ publishCalls = <<>>
            /\ e.cls = "HTTPError" => HttpOutcome(e, result)
            /\ e.cls = "URLError" => TransportOutcome(e, result)
            /\ e.cls = "JSONDecodeError" => DecodeOutcome(e, result)
            /\ e.cls \notin {"HTTPError", "URLError", "JSONDecodeError"} =>
                  UnexpectedOutcome(e, result)
            /\ Cardinality({ k \in 1..4 :
                  \/ k = 1 /\ HttpOutcome(e, result)
                  \/ k = 2 /\ TransportOutcome(e, result)
                  \/ k = 3 /\ DecodeOutcome(e, result)
                  \/ k = 4 /\ UnexpectedOutcome(e, result) }) = 1

C4_Witness ==
    /\ FetchFailed /\ fetched.exc.cls = "HTTPError" /\ fetched.exc.code = 404
    /\ Returned /\ result.statusCode = 404
    /\ result.body = "HTTP Error: Not Found"

\* C5: the steps run in the order fetch, format, publish without retries:
\* at most one HTTP GET and at most one publish call; a publish call comes
\* only after a successful fetch and decode of a non-empty list whose every
\* record has been formatted; a failed fetch is followed by no publish call.
C5_FetchFormatPublishOnce ==
    /\ Len(httpCalls) <= 1
    /\ Len(publishCalls) <= 1
    /\ pc \in {"start", "client", "fetch"} => httpCalls = <<>> /\ data = Undefined
    /\ pc \in {"start", "client", "fetch", "check", "format"} => messages = <<>>
    /\ pc # "done" => publishCalls = <<>>
    /\ FetchFailed => publishCalls = <<>>
    /\ publishCalls # <<>> =>
          /\ Len(httpCalls) = 1
          /\ FetchSucceeded
          /\ data.t = "arr"
          /\ Len(data.a) >= 1
          /\ Len(messages) = Len(data.a)
          /\ \A i \in 1..Len(data.a) :
                format_game_data(data.a[i]) = Return(messages[i])

C5_Witness ==
    /\ pc = "done"
    /\ Len(publishCalls) = 1 /\ Len(httpCalls) = 1
    /\ PublishAttempted /\ ~published.ok
    /\ Len(data.a) >= 2

\* the result that the outcome of the publish call determines
ResultOfPublish(outcome) ==
    IF outcome.ok
    THEN [statusCode |-> 200, body |-> "Data processed and sent to SNS"]
    ELSE IF outcome.exc.cls = "ClientError"
    THEN [statusCode |-> 500, body |-> "Error publishing to SNS"]
    ELSE [statusCode |-> 500,
          body |-> "Unexpected error: " \o outcome.exc.desc]

\* a decoded value that `not data` takes for "no games"
EmptyValue(v) ==
    v \in { JArr(<<>>), None, JBool(FALSE), JInt(0), JStr(""), JObj(<<>>) }

\* C9 as stated: the outcome of an attempted publish call alone determines
\* the result, and the handler returns statusCode 200 only when the decoded
\* list was empty or the publish call succeeded.
C9_Original ==
    /\ PublishAttempted => result = ResultOfPublish(published)
    /\ (Returned /\ result.statusCode = 200) =>
          \/ data = JArr(<<>>)
          \/ PublishAttempted /\ published.ok

\* C9 amended: the outcome of an attempted publish call alone determines the
\* result, and the handler returns statusCode 200 only when the decoded value
\* was empty (an empty list, or null, false, 0, "" or {}) or the publish call
\* succeeded.
C9_PublishOutcomeDecides ==
    /\ PublishAttempted => result = ResultOfPublish(published)
    /\ (Returned /\ result.statusCode = 200) =>
          \/ FetchSucceeded /\ EmptyValue(data)
          \/ PublishAttempted /\ published.ok

C9_Witness ==
    /\ pc = "done" /\ PublishAttempted /\ ~published.ok
    /\ published.exc.cls = "ClientError"
    /\ result = [statusCode |-> 500, body |-> "Error publishing to SNS"]

RECURSIVE ExpectedMessage(_)
ExpectedMessage(blocks) ==
    IF Len(blocks) = 1 THEN blocks[1]
    ELSE ExpectedMessage(SubSeq(blocks, 1, Len(blocks) - 1)) \o "\n---\n"
            \o blocks[Len(blocks)]

RECURSIVE TotalLength(_)
TotalLength(blocks) ==
    IF blocks = <<>> THEN 0 ELSE Len(Head(blocks)) + TotalLength(Tail(blocks))

\* C10: for a decoded list of n >= 1 records, the one message passed to the
\* publish call is the n formatter blocks in list order joined by "\n---\n"
\* (n-1 separators, none leading or trailing), sent with subject
\* "NBA Game Updates" to the configured topic identifier.
C10_MessageIsJoinedBlocks ==
    publishCalls # <<>> =>
        LET n == Len(data.a)
            blocks == [i \in 1..n |-> format_game_data(data.a[i]).value]
            request == publishCalls[1]
        IN  /\ Len(publishCalls) = 1
            /\ n >= 1
            /\ request.Message = ExpectedMessage(blocks)
            /\ Len(request.Message) = TotalLength(blocks) + 5 * (n - 1)
            /\ request.Subject = "NBA Game Updates"
            /\ request.TopicArn = env["SNS_TOPIC_ARN"].s

C10_Witness ==
    /\ Len(publishCalls) = 1
    /\ Len(data.a) >= 2
    /\ data.a[1] # data.a[2]
    /\ Contains(publishCalls[1].Message, "Channel: None\n\n---\nGame Status: ")

====
